---- MODULE Spec2Model ----
(***************************************************************************)
(* Model of scripts/patch_scenario_tasks.py: the task-list normalizer      *)
(* parse_tasks and the read-modify-write patcher main.                     *)
(*                                                                         *)
(* A Python str is a sequence of one-character strings.  A TOML/Python     *)
(* value is a record [kind, str, list, tbl] of which one payload field is  *)
(* used, named by kind.                                                    *)
(***************************************************************************)
EXTENDS Naturals, Sequences, FiniteSets

-----------------------------------------------------------------------------
(* Bounds of the checked inputs. *)

\* Longest raw input drawn character by character.
MaxLen == 4

\* Longest raw input drawn as a sequence of JSON words.
MaxWords == 5

\* Longest --tasks argument of a patcher run, in argument words.
MaxArgWords == 3

-----------------------------------------------------------------------------
(* Characters. *)

Quote == "\""

\* A lone surrogate code point.  Python holds one in a str when an argv byte
\* is not valid UTF-8 (surrogateescape: byte 0xFF becomes U+DCFF) or when
\* json.loads decodes an escape such as \ud800.  It is not whitespace, and
\* no strict codec can encode it.
Surrogate == "U+DCFF"

Chars == {"[", "]", ",", Quote, " ", "a", "l", "A", "L", "1", Surrogate}

\* str.isspace characters of the alphabet (str.strip() with no argument).
Whitespace == {" "}

\* json.decoder.WHITESPACE (" \t\n\r") within the alphabet.
JsonWhitespace == {" "}

Digits == {"1"}

-----------------------------------------------------------------------------
(* str methods used by parse_tasks. *)

RECURSIVE lstrip(_)
lstrip(s) ==
    IF s # <<>> /\ Head(s) \in Whitespace THEN lstrip(Tail(s)) ELSE s

RECURSIVE rstrip(_)
rstrip(s) ==
    IF s # <<>> /\ s[Len(s)] \in Whitespace
    THEN rstrip(SubSeq(s, 1, Len(s) - 1))
    ELSE s

strip(s) == rstrip(lstrip(s))

LowerChar(c) ==
    CASE c = "A" -> "a"
      [] c = "L" -> "l"
      [] OTHER -> c

lower(s) == [i \in 1..Len(s) |-> LowerChar(s[i])]

startswith(s, c) == s # <<>> /\ Head(s) = c

Contains(s, c) == \E i \in 1..Len(s) : s[i] = c

\* str.split(sep): the pieces between separators, empty pieces kept.
RECURSIVE split(_, _)
split(s, sep) ==
    IF ~Contains(s, sep)
    THEN <<s>>
    ELSE LET i == CHOOSE k \in 1..Len(s) :
                      s[k] = sep /\ \A j \in 1..(k - 1) : s[j] # sep
         IN  <<SubSeq(s, 1, i - 1)>> \o split(SubSeq(s, i + 1, Len(s)), sep)

\* [t.strip() for t in pieces if t.strip()]
RECURSIVE StripNonEmpty(_)
StripNonEmpty(pieces) ==
    IF pieces = <<>>
    THEN <<>>
    ELSE LET t == strip(Head(pieces))
         IN  (IF t # <<>> THEN <<t>> ELSE <<>>) \o StripNonEmpty(Tail(pieces))

-----------------------------------------------------------------------------
(* json.loads, restricted to the alphabet: arrays, strings without escapes *)
(* and integers.  Any other character where a value is expected is a       *)
(* JSONDecodeError.  An element is [kind, str]; a nested array keeps only  *)
(* its kind, which is all parse_tasks looks at.                            *)

JsonFail == [ok |-> FALSE, kind |-> "error", str |-> <<>>, items |-> <<>>, end |-> 0]

RECURSIVE skipws(_, _)
skipws(s, i) ==
    IF i <= Len(s) /\ s[i] \in JsonWhitespace THEN skipws(s, i + 1) ELSE i

\* py_scanstring from the character after the opening quote.
RECURSIVE scanstring(_, _, _)
scanstring(s, begin, i) ==
    IF i > Len(s)
    THEN JsonFail
    ELSE IF s[i] = Quote
         THEN [ok |-> TRUE, kind |-> "str", str |-> SubSeq(s, begin, i - 1),
               items |-> <<>>, end |-> i + 1]
         ELSE scanstring(s, begin, i + 1)

RECURSIVE scannumber(_, _)
scannumber(s, i) ==
    IF i <= Len(s) /\ s[i] \in Digits THEN scannumber(s, i + 1) ELSE i

RECURSIVE scan_once(_, _)
RECURSIVE JSONArray(_, _)
RECURSIVE ArrayItems(_, _, _)

scan_once(s, i) ==
    IF i > Len(s)
    THEN JsonFail
    ELSE CASE s[i] = Quote -> scanstring(s, i + 1, i + 1)
           [] s[i] = "[" -> JSONArray(s, i + 1)
           [] s[i] \in Digits ->
                [ok |-> TRUE, kind |-> "int", str |-> <<>>, items |-> <<>>,
                 end |-> scannumber(s, i)]
           [] OTHER -> JsonFail

JSONArray(s, i) ==
    LET j == skipws(s, i)
    IN  IF j <= Len(s) /\ s[j] = "]"
        THEN [ok |-> TRUE, kind |-> "list", str |-> <<>>, items |-> <<>>,
              end |-> j + 1]
        ELSE ArrayItems(s, j, <<>>)

ArrayItems(s, i, acc) ==
    LET v == scan_once(s, i)
    IN  IF ~v.ok
        THEN JsonFail
        ELSE LET item == [kind |-> v.kind, str |-> v.str]
                 j == skipws(s, v.end)
             IN  IF j > Len(s)
                 THEN JsonFail
                 ELSE IF s[j] = "]"
                      THEN [ok |-> TRUE, kind |-> "list", str |-> <<>>,
                            items |-> Append(acc, item), end |-> j + 1]
                      ELSE IF s[j] # ","
                           THEN JsonFail
                           ELSE ArrayItems(s, skipws(s, j + 1),
                                           Append(acc, item))

\* JSONDecoder.decode: one value, then only whitespace ("Extra data" otherwise).
json_loads(s) ==
    LET v == scan_once(s, skipws(s, 1))
    IN  IF v.ok /\ skipws(s, v.end) = Len(s) + 1 THEN v ELSE JsonFail

-----------------------------------------------------------------------------
(* Python / TOML values. *)

EmptyMap == <<>>

NoneV == [kind |-> "None", str |-> <<>>, list |-> <<>>, tbl |-> EmptyMap]

Str(s) == [kind |-> "str", str |-> s, list |-> <<>>, tbl |-> EmptyMap]

\* A list of str.
ListV(l) == [kind |-> "list", str |-> <<>>, list |-> l, tbl |-> EmptyMap]

\* A dict (TOML table) from keys to values.
Dict(m) == [kind |-> "dict", str |-> <<>>, list |-> <<>>, tbl |-> m]

\* d[k] = v on a dict's mapping.
SetItem(m, k, v) ==
    [x \in (DOMAIN m) \cup {k} |-> IF x = k THEN v ELSE m[x]]

-----------------------------------------------------------------------------
(* parse_tasks.  A call either returns a value or raises ValueError. *)

\* DEFAULT_TASKS with two entries in the other order.
DEFAULT_TASKS_Reordered ==
    ListV(<< <<"c", "a", "r", "t", "p", "o", "l", "e", "_", "b", "a", "l", "a", "n", "c", "e">>,
             <<"r", "e", "a", "c", "h", "e", "r", "_", "e", "a", "s", "y">>,
             <<"a", "c", "r", "o", "b", "o", "t", "_", "s", "w", "i", "n", "g", "u", "p">>,
             <<"w", "a", "l", "k", "e", "r", "_", "w", "a", "l", "k">>,
             <<"c", "h", "e", "e", "t", "a", "h", "_", "r", "u", "n">> >>)

DEFAULT_TASKS ==
    ListV(<< <<"c", "a", "r", "t", "p", "o", "l", "e", "_", "b", "a", "l", "a", "n", "c", "e">>,
             <<"a", "c", "r", "o", "b", "o", "t", "_", "s", "w", "i", "n", "g", "u", "p">>,
             <<"r", "e", "a", "c", "h", "e", "r", "_", "e", "a", "s", "y">>,
             <<"w", "a", "l", "k", "e", "r", "_", "w", "a", "l", "k">>,
             <<"c", "h", "e", "e", "t", "a", "h", "_", "r", "u", "n">> >>)

Return(v) == [raised |-> FALSE, msg |-> "", value |-> v]

Raise(m) == [raised |-> TRUE, msg |-> m, value |-> NoneV]

\* all(isinstance(x, str) for x in val)
AllStr(items) == \A i \in 1..Len(items) : items[i].kind = "str"

ItemStrs(items) == [i \in 1..Len(items) |-> items[i].str]

\* The "[" branch: json.loads, the type check, strip and filter.
ParseJsonList(raw) ==
    LET val == json_loads(raw)
    IN  IF ~val.ok
        THEN Raise("Invalid JSON for tasks")
        ELSE IF val.kind # "list" \/ ~AllStr(val.items)
             THEN Raise("JSON tasks must be a list of strings")
             ELSE LET tasks == StripNonEmpty(ItemStrs(val.items))
                  IN  IF tasks = <<>>
                      THEN Raise("tasks list is empty")
                      ELSE Return(ListV(tasks))

RECURSIVE Dedup(_)
\* The first occurrence of each entry.
Dedup(l) ==
    IF l = <<>>
    THEN <<>>
    ELSE LET rest == Dedup(SubSeq(l, 1, Len(l) - 1))
             x == l[Len(l)]
         IN  IF \E i \in 1..Len(rest) : rest[i] = x
             THEN rest
             ELSE Append(rest, x)

\* ParseCommaList with duplicates removed.
ParseCommaList_Dedup(raw) ==
    LET tasks == Dedup(StripNonEmpty(split(raw, ",")))
    IN  IF tasks = <<>>
        THEN Raise("tasks list is empty")
        ELSE Return(ListV(tasks))

\* ParseCommaList with the filter on empty pieces left out.
ParseCommaList_KeepEmpty(raw) ==
    LET pieces == split(raw, ",")
        tasks == [i \in 1..Len(pieces) |-> strip(pieces[i])]
    IN  IF tasks = <<>>
        THEN Raise("tasks list is empty")
        ELSE Return(ListV(tasks))

\* The "," branch: split, strip and filter.
ParseCommaList(raw) ==
    LET tasks == StripNonEmpty(split(raw, ","))
    IN  IF tasks = <<>>
        THEN Raise("tasks list is empty")
        ELSE Return(ListV(tasks))

\* parse_tasks with the comma test ahead of the "[" test.
parse_tasks_CommaFirst(arg) ==
    IF arg.kind = "None"
    THEN Return(DEFAULT_TASKS)
    ELSE LET raw == strip(arg.str)
         IN  IF raw = <<>>
             THEN Return(DEFAULT_TASKS)
             ELSE IF lower(raw) = <<"a", "l", "l">>
                  THEN Return(Str(<<"a", "l", "l">>))
                  ELSE IF Contains(raw, ",")
                       THEN ParseCommaList(raw)
                       ELSE IF startswith(raw, "[")
                            THEN ParseJsonList(raw)
                            ELSE Return(ListV(<<raw>>))

\* parse_tasks comparing with "all" without lower().
parse_tasks_CaseSensitive(arg) ==
    IF arg.kind = "None"
    THEN Return(DEFAULT_TASKS)
    ELSE LET raw == strip(arg.str)
         IN  IF raw = <<>>
             THEN Return(DEFAULT_TASKS)
             ELSE IF raw = <<"a", "l", "l">>
                  THEN Return(Str(<<"a", "l", "l">>))
                  ELSE IF startswith(raw, "[")
                       THEN ParseJsonList(raw)
                       ELSE IF Contains(raw, ",")
                            THEN ParseCommaList(raw)
                            ELSE Return(ListV(<<raw>>))

\* parse_tasks returning the single task as given, not stripped.
parse_tasks_SingleUnstripped(arg) ==
    IF arg.kind = "None"
    THEN Return(DEFAULT_TASKS)
    ELSE LET raw == strip(arg.str)
         IN  IF raw = <<>>
             THEN Return(DEFAULT_TASKS)
             ELSE IF lower(raw) = <<"a", "l", "l">>
                  THEN Return(Str(<<"a", "l", "l">>))
                  ELSE IF startswith(raw, "[")
                       THEN ParseJsonList(raw)
                       ELSE IF Contains(raw, ",")
                            THEN ParseCommaList(raw)
                            ELSE Return(ListV(<<arg.str>>))

parse_tasks(arg) ==
    IF arg.kind = "None"
    THEN Return(DEFAULT_TASKS)
    ELSE LET raw == strip(arg.str)
         IN  IF raw = <<>>
             THEN Return(DEFAULT_TASKS)
             ELSE IF lower(raw) = <<"a", "l", "l">>
                  THEN Return(Str(<<"a", "l", "l">>))
                  ELSE IF startswith(raw, "[")
                       THEN ParseJsonList(raw)
                       ELSE IF Contains(raw, ",")
                            THEN ParseCommaList(raw)
                            ELSE Return(ListV(<<raw>>))

-----------------------------------------------------------------------------
(* Inputs. *)

RECURSIVE Flatten(_)
Flatten(ws) == IF ws = <<>> THEN <<>> ELSE Head(ws) \o Flatten(Tail(ws))

\* Pieces of JSON text, for raw inputs longer than MaxLen characters.
JsonWords ==
    { <<"[">>, <<"]">>, <<",">>, <<"1">>,
      <<Quote, "a", Quote>>, <<Quote, " ", "l", " ", Quote>>,
      <<Quote, " ", Quote>>, <<Quote, "a", "l", "l", Quote>> }

\* Pieces of a --tasks argument of a patcher run.
ArgWords ==
    { <<"a">>, <<" ">>, <<",">>, <<"[">>, <<"]">>,
      <<Quote, "a", Quote>>, <<"A", "L", "L">>, <<Surrogate>> }

-----------------------------------------------------------------------------
(* The scenario file and the TOML library.  A file's text is abstracted to *)
(* [valid, layout, doc]: whether it is TOML, how it is laid out (comments, *)
(* spacing, key order: an author's or tomli_w's) and the document it       *)
(* denotes, a mapping from top-level keys to values.                       *)

Text(layout, doc) == [valid |-> TRUE, layout |-> layout, doc |-> doc]

\* Text that tomli.loads rejects (TOMLDecodeError).
InvalidText == [valid |-> FALSE, layout |-> "handwritten", doc |-> EmptyMap]

\* tomli.loads: the document of a valid text; layout and comments are lost.
tomli_loads(text) == text.doc

\* tomli_w.dumps: the document in tomli_w's own layout.  A str is written
\* as a basic string; only quotes, backslashes and ASCII control characters
\* are escaped, so a lone surrogate goes into the text as it is.
tomli_w_dumps(doc) == Text("tomli_w", doc)

NoFile == [exists |-> FALSE, text |-> InvalidText]

File(text) == [exists |-> TRUE, text |-> text]

\* The zero-byte file: what open(path, "w") leaves before anything is written.
EmptyFile == File(tomli_w_dumps(EmptyMap))

HasSurrogate(s) == Contains(s, Surrogate)

RECURSIVE Encodable(_)
\* Whether str.encode (strict) accepts every str of the value.
Encodable(v) ==
    CASE v.kind = "str" -> ~HasSurrogate(v.str)
      [] v.kind = "list" -> \A i \in 1..Len(v.list) : ~HasSurrogate(v.list[i])
      [] v.kind = "dict" -> \A k \in DOMAIN v.tbl : Encodable(v.tbl[k])
      [] OTHER -> TRUE

\* The config tables of the starting documents.
OldTasks == ListV(<< <<"l">>, <<"a">> >>)

OtherValue == Str(<<"x">>)

ConfigTables ==
    { [k \in K |-> IF k = "tasks" THEN OldTasks ELSE OtherValue] :
        K \in SUBSET {"tasks", "other_key"} }

\* What a starting document holds under config: nothing (NoneV), a str, a
\* list, or a table.
ConfigOptions ==
    {NoneV, OtherValue, OldTasks} \cup {Dict(m) : m \in ConfigTables}

\* What it holds under its other top-level key: nothing or a table.
OtherOptions ==
    {NoneV, Dict([k \in {"endpoint"} |-> OtherValue])}

MakeDoc(c, g) ==
    [k \in (IF c = NoneV THEN {} ELSE {"config"}) \cup
           (IF g = NoneV THEN {} ELSE {"green_agent"})
       |-> IF k = "config" THEN c ELSE g]

Layouts == {"handwritten", "tomli_w"}

-----------------------------------------------------------------------------
(* State. *)

VARIABLES
    pc,         \* position of the running call
    raw,        \* parse_tasks' argument (a direct call), args.tasks (a run)
    result,     \* what the direct call of parse_tasks returned or raised
    fs,         \* the file system at args.scenario
    before,     \* the file system at args.scenario when the run started
    data,       \* the document in memory; cfg is data["config"]
    exit,       \* <<>> while running, then <<exit status>>
    writes,     \* how many times the file was opened for writing
    stdout,     \* values printed to standard output
    stderr      \* messages printed to standard error

vars == <<pc, raw, result, fs, before, data, exit, writes, stdout, stderr>>

NoResult == Raise("")

-----------------------------------------------------------------------------
(* A direct call of parse_tasks. *)

InitParse ==
    /\ pc = "call"
    /\ \/ raw = NoneV
       \/ \E k \in 0..MaxLen : \E s \in [1..k -> Chars] : raw = Str(s)
       \/ \E k \in 0..MaxWords :
             \E ws \in [1..k -> JsonWords] : raw = Str(Flatten(ws))
    /\ result = NoResult
    /\ fs = NoFile
    /\ before = NoFile
    /\ data = EmptyMap
    /\ exit = <<>>
    /\ writes = 0
    /\ stdout = <<>>
    /\ stderr = <<>>

CallParseTasks ==
    /\ pc = "call"
    /\ result' = parse_tasks(raw)
    /\ pc' = "returned"
    /\ UNCHANGED <<raw, fs, before, data, exit, writes, stdout, stderr>>

NextParse == CallParseTasks

SpecParse == InitParse /\ [][NextParse]_vars

-----------------------------------------------------------------------------
(* A run of main.  argparse gives args.tasks the default "" when --tasks   *)
(* is omitted, so args.tasks is always a str.                              *)

Init ==
    /\ pc = "start"
    /\ \E k \in 0..MaxArgWords :
          \E ws \in [1..k -> ArgWords] : raw = Str(Flatten(ws))
    /\ result = NoResult
    /\ \/ fs = NoFile
       \/ fs = File(InvalidText)
       \/ \E l \in Layouts, c \in ConfigOptions, g \in OtherOptions :
             fs = File(Text(l, MakeDoc(c, g)))
    /\ before = fs
    /\ data = EmptyMap
    /\ exit = <<>>
    /\ writes = 0
    /\ stdout = <<>>
    /\ stderr = <<>>

\* if not args.scenario.exists(): print error; return 2
NotFound ==
    /\ pc = "start"
    /\ ~fs.exists
    /\ stderr' = Append(stderr, "Error: scenario not found")
    /\ exit' = <<2>>
    /\ pc' = "exit"
    /\ UNCHANGED <<raw, result, fs, before, data, writes, stdout>>

\* data = tomli.loads(args.scenario.read_text())
LoadDocument ==
    /\ pc = "start"
    /\ fs.exists
    /\ fs.text.valid
    /\ data' = tomli_loads(fs.text)
    /\ pc' = "loaded"
    /\ UNCHANGED <<raw, result, fs, before, exit, writes, stdout, stderr>>

\* tomli.loads raises TOMLDecodeError; nothing catches it, and the
\* interpreter exits with status 1 after printing the traceback.
LoadFails ==
    /\ pc = "start"
    /\ fs.exists
    /\ ~fs.text.valid
    /\ stderr' = Append(stderr, "Traceback: TOMLDecodeError")
    /\ exit' = <<1>>
    /\ pc' = "exit"
    /\ UNCHANGED <<raw, result, fs, before, data, writes, stdout>>

\* data.get("config")
GetConfig(d) == IF "config" \in DOMAIN d THEN d["config"] ELSE NoneV

\* EnsureConfigDict that always starts from a fresh dict.
EnsureConfigDict_AlwaysFresh(d) == SetItem(d, "config", Dict(EmptyMap))

\* cfg = data.get("config"); if cfg is None or not a dict: data["config"] = {}
EnsureConfigDict(d) ==
    IF GetConfig(d).kind # "dict"
    THEN SetItem(d, "config", Dict(EmptyMap))
    ELSE d

\* EnsureConfig that warns on standard error when it discards a value.
EnsureConfig_Warns ==
    /\ pc = "loaded"
    /\ data' = EnsureConfigDict(data)
    /\ stderr' = IF GetConfig(data).kind \notin {"None", "dict"}
                 THEN Append(stderr, "Warning: config is not a table")
                 ELSE stderr
    /\ pc' = "configured"
    /\ UNCHANGED <<raw, result, fs, before, exit, writes, stdout>>

EnsureConfig ==
    /\ pc = "loaded"
    /\ data' = EnsureConfigDict(data)
    /\ pc' = "configured"
    /\ UNCHANGED <<raw, result, fs, before, exit, writes, stdout, stderr>>

\* cfg["tasks"] = v, where cfg is the dict object held under data["config"]
SetTasks(d, v) ==
    [d EXCEPT !["config"] = Dict(SetItem(@.tbl, "tasks", v))]

AssignTasks ==
    /\ pc = "configured"
    /\ LET r == parse_tasks(raw)
       IN  /\ ~r.raised
           /\ data' = SetTasks(data, r.value)
    /\ pc' = "assigned"
    /\ UNCHANGED <<raw, result, fs, before, exit, writes, stdout, stderr>>

\* RejectTasks with the mutated document written before returning.
RejectTasks_WritesAnyway ==
    /\ pc = "configured"
    /\ LET r == parse_tasks(raw)
       IN  /\ r.raised
           /\ stderr' = Append(stderr, r.msg)
    /\ fs' = File(tomli_w_dumps(data))
    /\ writes' = writes + 1
    /\ exit' = <<2>>
    /\ pc' = "exit"
    /\ UNCHANGED <<raw, result, before, data, stdout>>

\* except ValueError as e: print error; return 2
RejectTasks ==
    /\ pc = "configured"
    /\ LET r == parse_tasks(raw)
       IN  /\ r.raised
           /\ stderr' = Append(stderr, r.msg)
    /\ exit' = <<2>>
    /\ pc' = "exit"
    /\ UNCHANGED <<raw, result, fs, before, data, writes, stdout>>

\* args.scenario.write_text(tomli_w.dumps(data)): Path.write_text opens the
\* file with mode "w", which truncates it, and then encodes and writes.
WriteDocument ==
    /\ pc = "assigned"
    /\ Encodable(Dict(data))
    /\ fs' = File(tomli_w_dumps(data))
    /\ writes' = writes + 1
    /\ pc' = "written"
    /\ UNCHANGED <<raw, result, before, data, exit, stdout, stderr>>

\* The text holds a lone surrogate: the file is already truncated when the
\* encoder raises UnicodeEncodeError; nothing catches it, status 1.
WriteFails ==
    /\ pc = "assigned"
    /\ ~Encodable(Dict(data))
    /\ fs' = EmptyFile
    /\ writes' = writes + 1
    /\ stderr' = Append(stderr, "Traceback: UnicodeEncodeError")
    /\ exit' = <<1>>
    /\ pc' = "exit"
    /\ UNCHANGED <<raw, result, before, data, stdout>>

\* print(f"Updated [config].tasks -> {cfg['tasks']}"); return 0
Finish ==
    /\ pc = "written"
    /\ stdout' = Append(stdout, data["config"].tbl["tasks"])
    /\ exit' = <<0>>
    /\ pc' = "exit"
    /\ UNCHANGED <<raw, result, fs, before, data, writes, stderr>>

Next ==
    \/ NotFound
    \/ LoadDocument
    \/ LoadFails
    \/ EnsureConfig
    \/ AssignTasks
    \/ RejectTasks
    \/ WriteDocument
    \/ WriteFails
    \/ Finish

Spec == Init /\ [][Next]_vars

\* A direct call of parse_tasks or a run of main.
SpecAll == (Init \/ InitParse) /\ [][Next \/ NextParse]_vars

-----------------------------------------------------------------------------
(* Vocabulary of the properties, stated without the operators of the model. *)

NonSpace(s) == {i \in 1..Len(s) : s[i] \notin Whitespace}

Least(S) == CHOOSE x \in S : \A y \in S : x <= y

Greatest(S) == CHOOSE x \in S : \A y \in S : y <= x

\* The k-th smallest element of S.
Nth(S, k) == CHOOSE i \in S : Cardinality({j \in S : j <= i}) = k

\* s without its leading and trailing whitespace.
Trimmed(s) ==
    IF NonSpace(s) = {}
    THEN <<>>
    ELSE SubSeq(s, Least(NonSpace(s)), Greatest(NonSpace(s)))

Blank(s) == NonSpace(s) = {}

\* No leading or trailing whitespace, and not empty.
IsTrimmedNonEmpty(s) ==
    s # <<>> /\ s[1] \notin Whitespace /\ s[Len(s)] \notin Whitespace

\* The entries of strs that are not blank, trimmed, in their order.
Kept(strs) ==
    LET idx == {i \in 1..Len(strs) : ~Blank(strs[i])}
    IN  [k \in 1..Cardinality(idx) |-> Trimmed(strs[Nth(idx, k)])]

\* The pieces of s between its commas.
CommaPieces(s) ==
    LET commas == {i \in 1..Len(s) : s[i] = ","}
        n == Cardinality(commas)
    IN  [k \in 1..(n + 1) |->
            SubSeq(s,
                   IF k = 1 THEN 1 ELSE Nth(commas, k - 1) + 1,
                   IF k = n + 1 THEN Len(s) ELSE Nth(commas, k) - 1)]

\* "all" in any letter case.
IsAllWord(s) ==
    /\ Len(s) = 3
    /\ s[1] \in {"a", "A"}
    /\ s[2] \in {"l", "L"}
    /\ s[3] \in {"l", "L"}

AllSentinel == Str(<<"a", "l", "l">>)

FiveDefaults ==
    << <<"c", "a", "r", "t", "p", "o", "l", "e", "_", "b", "a", "l", "a", "n", "c", "e">>,
       <<"a", "c", "r", "o", "b", "o", "t", "_", "s", "w", "i", "n", "g", "u", "p">>,
       <<"r", "e", "a", "c", "h", "e", "r", "_", "e", "a", "s", "y">>,
       <<"w", "a", "l", "k", "e", "r", "_", "w", "a", "l", "k">>,
       <<"c", "h", "e", "e", "t", "a", "h", "_", "r", "u", "n">> >>

\* The direct call has returned or raised, and its argument was a str.
ReturnedOnStr == pc = "returned" /\ raw.kind = "str"

\* The run has ended with this exit status.
Exited(status) == pc = "exit" /\ exit = <<status>>

\* The documents the file held before the run and holds now.
OldDoc == tomli_loads(before.text)

NewDoc == tomli_loads(fs.text)

\* The run ended with status 0 and the file holds a document with a config
\* table that has a tasks key.
WroteTasks ==
    /\ Exited(0)
    /\ fs.exists
    /\ fs.text.valid
    /\ "config" \in DOMAIN NewDoc
    /\ NewDoc["config"].kind = "dict"
    /\ "tasks" \in DOMAIN NewDoc["config"].tbl

NewTasks == NewDoc["config"].tbl["tasks"]

-----------------------------------------------------------------------------
(* Properties of a run of main. *)

\* C1: after every run that returns exit status 0, the written document's
\* config.tasks is either the sentinel "all" or a non-empty list of
\* non-empty strings without leading or trailing whitespace.
C1_WrittenTasksCanonical ==
    Exited(0) =>
        /\ WroteTasks
        /\ \/ NewTasks = AllSentinel
           \/ /\ NewTasks.kind = "list"
              /\ NewTasks.list # <<>>
              /\ \A i \in 1..Len(NewTasks.list) :
                    IsTrimmedNonEmpty(NewTasks.list[i])

\* A run that succeeded on an argument of three comma-separated pieces, two
\* of them empty or blank, and wrote a list of one task.
C1_Witness ==
    /\ WroteTasks
    /\ NewTasks.kind = "list"
    /\ Len(NewTasks.list) = 1
    /\ Len(CommaPieces(raw.str)) = 3

\* C2: whenever the run returns exit status 2 (the path does not exist, or
\* parse_tasks rejects the argument), the file system at the path is as it
\* was before the run: no file created, an existing file's bytes unchanged.
C2_Exit2LeavesFileUntouched ==
    Exited(2) => fs = before

\* A run on an existing hand-written file that parse_tasks' ValueError ended.
C2_Witness ==
    /\ Exited(2)
    /\ before.exists
    /\ before.text.layout = "handwritten"
    /\ stderr = <<"tasks list is empty">>

\* C3: after a successful run every top-level key other than config and
\* every key of the config section other than tasks holds the value that
\* was read, and no other key is added or removed.
C3_OtherFieldsPreserved ==
    Exited(0) =>
        LET oldCfg == IF GetConfig(OldDoc).kind = "dict"
                      THEN GetConfig(OldDoc).tbl
                      ELSE EmptyMap
            newCfg == NewDoc["config"].tbl
        IN  /\ WroteTasks
            /\ (DOMAIN NewDoc) \ {"config"} = (DOMAIN OldDoc) \ {"config"}
            /\ \A k \in (DOMAIN OldDoc) \ {"config"} : NewDoc[k] = OldDoc[k]
            /\ (DOMAIN newCfg) \ {"tasks"} = (DOMAIN oldCfg) \ {"tasks"}
            /\ \A k \in (DOMAIN oldCfg) \ {"tasks"} : newCfg[k] = oldCfg[k]

\* A successful run on a document with another top-level table and a config
\* table that held other_key and an older tasks list.
C3_Witness ==
    /\ WroteTasks
    /\ "green_agent" \in DOMAIN OldDoc
    /\ GetConfig(OldDoc).kind = "dict"
    /\ DOMAIN GetConfig(OldDoc).tbl = {"tasks", "other_key"}
    /\ NewTasks # GetConfig(OldDoc).tbl["tasks"]

-----------------------------------------------------------------------------
(* Properties of parse_tasks. *)

\* The trimmed argument of the direct call.
TrimmedRaw == Trimmed(raw.str)

\* C4: for every raw input whose trimmed form starts with "[", parse_tasks
\* raises the validation error exactly when the text is not valid JSON, the
\* value is not an array, some element is not a string, or no element is
\* non-empty after trimming; otherwise it returns the trimmed non-empty
\* elements in their order.  The comma and single-token rules never apply.
C4_BracketInputIsJson ==
    (ReturnedOnStr /\ TrimmedRaw # <<>> /\ TrimmedRaw[1] = "[") =>
        LET val == json_loads(TrimmedRaw)
            strs == [i \in 1..Len(val.items) |-> val.items[i].str]
            bad == \/ ~val.ok
                   \/ val.kind # "list"
                   \/ \E i \in 1..Len(val.items) : val.items[i].kind # "str"
                   \/ Kept(strs) = <<>>
        IN  IF bad
            THEN result.raised
            ELSE result = Return(ListV(Kept(strs)))

\* A JSON array of two strings, with commas and padding inside an element,
\* returned as the two trimmed elements.
C4_Witness ==
    /\ ReturnedOnStr
    /\ TrimmedRaw # <<>>
    /\ TrimmedRaw[1] = "["
    /\ Contains(TrimmedRaw, ",")
    /\ ~result.raised
    /\ result.value.list = << <<"a">>, <<"l">> >>

\* The trimmed input is not empty, is not "all" in any letter case and does
\* not start with "[".
PlainInput ==
    /\ ReturnedOnStr
    /\ TrimmedRaw # <<>>
    /\ ~IsAllWord(TrimmedRaw)
    /\ TrimmedRaw[1] # "["

\* C5: a plain input that contains a comma is split on commas; each piece
\* is trimmed and the empty ones dropped; the rest is returned in order,
\* duplicates kept; the validation error is raised exactly when no piece
\* remains.
C5_CommaSplit ==
    (PlainInput /\ Contains(TrimmedRaw, ",")) =>
        LET kept == Kept(CommaPieces(TrimmedRaw))
        IN  IF kept = <<>>
            THEN result.raised
            ELSE result = Return(ListV(kept))

\* "a,a" or the like: a duplicate kept.
C5_Witness ==
    /\ PlainInput
    /\ Len(CommaPieces(TrimmedRaw)) > 2
    /\ ~result.raised
    /\ result.value.list = << <<"a">>, <<"a">> >>

\* C7: an input whose trimmed form is "all" in any letter case returns the
\* sentinel string "all", not a list; nothing else returns a string.
C7_AllSentinel ==
    ReturnedOnStr =>
        /\ IsAllWord(TrimmedRaw) => result = Return(AllSentinel)
        /\ (~result.raised /\ ~IsAllWord(TrimmedRaw)) =>
              result.value.kind = "list"

\* " ALL" or the like returned the sentinel.
C7_Witness ==
    /\ ReturnedOnStr
    /\ result = Return(AllSentinel)
    /\ Len(raw.str) > 3
    /\ "A" \in {raw.str[i] : i \in 1..Len(raw.str)}

\* C8: a plain input without a comma returns the one-element list of the
\* trimmed input, and never raises.
C8_SingleToken ==
    (PlainInput /\ ~Contains(TrimmedRaw, ",")) =>
        result = Return(ListV(<<TrimmedRaw>>))

\* A padded token with whitespace inside, returned trimmed.
C8_Witness ==
    /\ PlainInput
    /\ ~Contains(TrimmedRaw, ",")
    /\ result = Return(ListV(<< <<"a", " ", "l">> >>))
    /\ Len(raw.str) > 3

-----------------------------------------------------------------------------
(* Properties of both. *)

\* C6: for every raw input that is absent (None), empty or whitespace-only,
\* parse_tasks returns the default list of 5 task identifiers in its order
\* and never raises; so a run without --tasks (or with a blank one) on an
\* existing valid file succeeds and sets config.tasks to that list.
C6_BlankGivesDefaults ==
    /\ (pc = "returned" /\ (raw = NoneV \/ Blank(raw.str))) =>
          result = Return(ListV(FiveDefaults))
    /\ (pc = "exit" /\ Blank(raw.str) /\ before.exists /\ before.text.valid) =>
          /\ WroteTasks
          /\ NewTasks = ListV(FiveDefaults)

\* A run without --tasks replaced an older tasks list by the defaults.
C6_Witness ==
    /\ WroteTasks
    /\ raw = Str(<<>>)
    /\ "tasks" \in DOMAIN GetConfig(OldDoc).tbl
    /\ Len(NewTasks.list) = 5
    /\ NewTasks.list[2] = <<"a", "c", "r", "o", "b", "o", "t", "_", "s", "w", "i", "n", "g", "u", "p">>

\* C9: in every run the file is written at most once, and only after it was
\* read and parse_tasks returned; the run returns exit status 0 if and only
\* if that write happened, so no run that ends with a non-zero status has
\* written the file.
C9_WrittenOnlyOnSuccess ==
    /\ writes <= 1
    /\ writes = 1 => (pc \in {"written", "exit"} /\ ~parse_tasks(raw).raised)
    /\ pc = "exit" => (exit = <<0>> <=> writes = 1)
    /\ (pc = "exit" /\ exit # <<0>>) => fs = before

\* C10: when the document read has no config key, or one whose value is not
\* a mapping, a successful run writes a config mapping with exactly one key,
\* tasks; the old value is discarded without any error or warning.
C10_NonMappingConfigReplaced ==
    (Exited(0) /\ GetConfig(OldDoc).kind # "dict") =>
        /\ WroteTasks
        /\ DOMAIN NewDoc["config"].tbl = {"tasks"}
        /\ stderr = <<>>

\* A successful run on a document whose config was a str.
C10_Witness ==
    /\ WroteTasks
    /\ GetConfig(OldDoc).kind = "str"
    /\ stdout # <<>>

====
